---- MODULE Spec2Model ----
(***************************************************************************)
(* Tagum tricycle fare predictor: the two serving variants                 *)
(* (backend/app.py, the Flask pipeline server, and api/predict.py, the     *)
(* serverless function) modelled as one state machine: module import       *)
(* (artifact loading) followed by POST /predict requests that go through   *)
(* Received -> Validated -> Encoded -> Predicted -> Responded.             *)
(*                                                                         *)
(* Numbers (Python floats) are kept in thousandths: 5.5 is 5500.           *)
(***************************************************************************)
EXTENDS Integers, Sequences, FiniteSets, TLC

VARIABLES
    app,           \* which serving module runs: "backend" (backend/app.py) or "api" (api/predict.py)
    phase,         \* "import" while the module body still has to run, "serving" afterwards
    load_result,   \* what load_pipeline() returned: "True", "False", or "n/a" (not run / api variant)
    model,         \* global model: None or Loaded
    preprocessor,  \* global preprocessor (backend only)
    scaler,        \* global scaler (backend only)
    metadata,      \* global metadata (backend only): None or the dict that was loaded
    pc,            \* position of the request being handled
    request,       \* the HTTP request: its content kind and the body get_json() yields
    verdict,       \* what validate_input_data did for the request (NoVerdict: not called)
    features,      \* the encoded feature vector of the request (after the encoding step)
    prediction,    \* the value model.predict returned for the request
    response,      \* the HTTP response: status, the keys of the JSON body and their values
    raised,        \* the exception raised while the request was handled (NoExc: none)
    steps,         \* the steps the handler has performed for the request, in order
    workers        \* the requests that are handled concurrently, one handler-local state each

vars == <<app, phase, load_result, model, preprocessor, scaler, metadata,
          pc, request, verdict, features, prediction, response, raised, steps, workers>>

-----------------------------------------------------------------------------
(* Bounds of the model *)

\* the regressor returns values k/8 (+- 0.001) for k in -MaxEighths..MaxEighths
MaxEighths == 3

-----------------------------------------------------------------------------
(* JSON values as Python sees them after request.get_json() *)

JStr(s)  == [t |-> "str",    s |-> s,  n |-> 0]
JNum(m)  == [t |-> "num",    s |-> "", n |-> m]     \* a JSON number, in thousandths
JBool(b) == [t |-> "bool",   s |-> "", n |-> IF b THEN 1 ELSE 0]
JNull    == [t |-> "null",   s |-> "", n |-> 0]
JList    == [t |-> "list",   s |-> "", n |-> 0]     \* the value []
JDict    == [t |-> "dict",   s |-> "", n |-> 0]     \* the value {}
JBigInt  == [t |-> "bigint", s |-> "", n |-> 0]     \* an integer literal beyond the float range (10**400)

\* The request body after get_json(): a dict (key -> value), a list of
\* strings, a string, a number or null.
NoFields == [k \in {} |-> JNull]
DictBody(d) == [t |-> "dict", d |-> d,        l |-> <<>>, s |-> ""]
ListBody(l) == [t |-> "list", d |-> NoFields, l |-> l,    s |-> ""]
StrBody(s)  == [t |-> "str",  d |-> NoFields, l |-> <<>>, s |-> s]
NumBody     == [t |-> "num",  d |-> NoFields, l |-> <<>>, s |-> ""]
NullBody    == [t |-> "null", d |-> NoFields, l |-> <<>>, s |-> ""]

\* Python floats
Fin(m) == [k |-> "fin", m |-> m]
NaN    == [k |-> "nan", m |-> 0]
PosInf == [k |-> "inf", m |-> 0]
NegInf == [k |-> "-inf", m |-> 0]

\* Python exceptions
NoExc == [type |-> "", text |-> ""]
Exc(type, text) == [type |-> type, text |-> text]

None == "None"
Loaded == "loaded"

-----------------------------------------------------------------------------
(* Python built-ins the validators rely on *)

RECURSIVE Join(_, _)
\* sep.join(seq)
Join(seq, sep) ==
    IF Len(seq) = 0 THEN ""
    ELSE IF Len(seq) = 1 THEN seq[1]
    ELSE seq[1] \o sep \o Join(Tail(seq), sep)

\* sub in s, for two strings
IsSubstring(sub, s) ==
    \E i \in 1..(Len(s) - Len(sub) + 1) : SubSeq(s, i, i + Len(sub) - 1) = sub

TypeName(t) ==
    CASE t = "null" -> "NoneType"
      [] t = "num" -> "float"
      [] t = "bigint" -> "int"
      [] OTHER -> t

\* `key in data`: [exc, v]; membership for a dict is over its keys, for a
\* list over its elements, for a string it is the substring test, and any
\* other body is not iterable
py_in(key, data) ==
    CASE data.t = "dict" -> [exc |-> NoExc, v |-> key \in DOMAIN data.d]
      [] data.t = "list" -> [exc |-> NoExc, v |-> \E i \in 1..Len(data.l) : data.l[i] = key]
      [] data.t = "str"  -> [exc |-> NoExc, v |-> IsSubstring(key, data.s)]
      [] OTHER -> [exc |-> Exc("TypeError", "argument of type '" \o TypeName(data.t) \o "' is not iterable"),
                   v |-> FALSE]

\* data[key] with a string key, once `key in data` held
py_getitem(data, key) ==
    CASE data.t = "dict" -> [exc |-> NoExc, v |-> data.d[key]]
      [] data.t = "list" -> [exc |-> Exc("TypeError", "list indices must be integers or slices, not str"), v |-> JNull]
      [] OTHER -> [exc |-> Exc("TypeError", "string indices must be integers"), v |-> JNull]

Digits == <<"0", "1", "2", "3", "4", "5", "6", "7", "8", "9">>
IsDigit(c) == \E i \in 1..10 : Digits[i] = c
DigitVal(c) == (CHOOSE i \in 1..10 : Digits[i] = c) - 1

RECURSIVE Strip(_)
\* s.strip() for blanks
Strip(s) ==
    IF Len(s) = 0 THEN s
    ELSE IF SubSeq(s, 1, 1) = " " THEN Strip(SubSeq(s, 2, Len(s)))
    ELSE IF SubSeq(s, Len(s), Len(s)) = " " THEN Strip(SubSeq(s, 1, Len(s) - 1))
    ELSE s

RECURSIVE Lower(_)
\* s.lower() for the letters of "nan", "inf" and "infinity"
Lower(s) ==
    IF Len(s) = 0 THEN ""
    ELSE LET c == SubSeq(s, 1, 1)
             lc == CASE c = "N" -> "n" [] c = "A" -> "a" [] c = "I" -> "i"
                     [] c = "F" -> "f" [] c = "T" -> "t" [] c = "Y" -> "y"
                     [] OTHER -> c
         IN lc \o Lower(SubSeq(s, 2, Len(s)))

RECURSIVE AllDigits(_)
AllDigits(s) == Len(s) = 0 \/ (IsDigit(SubSeq(s, 1, 1)) /\ AllDigits(SubSeq(s, 2, Len(s))))

RECURSIVE IntOf(_)
\* the value of a string of digits
IntOf(s) == IF Len(s) = 0 THEN 0
            ELSE IntOf(SubSeq(s, 1, Len(s) - 1)) * 10 + DigitVal(SubSeq(s, Len(s), Len(s)))

\* the position of the first "." of s, or 0
DotAt(s) == IF \E i \in 1..Len(s) : SubSeq(s, i, i) = "."
            THEN CHOOSE i \in 1..Len(s) :
                    SubSeq(s, i, i) = "." /\ \A j \in 1..(i - 1) : SubSeq(s, j, j) # "."
            ELSE 0

\* float() of a string, after the sign: nan, inf, infinity (any case) or a
\* plain decimal u with its first "." at dot (0: none); s is the original
\* string, for the error text
float_of_unsigned(s, neg, u, dot) ==
    IF Lower(u) = "nan" THEN [exc |-> NoExc, v |-> NaN]
    ELSE IF Lower(u) \in {"inf", "infinity"} THEN [exc |-> NoExc, v |-> IF neg THEN NegInf ELSE PosInf]
    ELSE IF \/ Len(u) = 0 \/ u = "."
            \/ Len(u) - dot > 3 /\ dot > 0
            \/ ~AllDigits(SubSeq(u, 1, IF dot = 0 THEN Len(u) ELSE dot - 1))
            \/ dot > 0 /\ ~AllDigits(SubSeq(u, dot + 1, Len(u)))
         THEN [exc |-> Exc("ValueError", "could not convert string to float: '" \o s \o "'"), v |-> NaN]
    ELSE IF dot = 0 THEN [exc |-> NoExc, v |-> Fin((IF neg THEN -1 ELSE 1) * IntOf(u) * 1000)]
    ELSE [exc |-> NoExc,
          v |-> Fin((IF neg THEN -1 ELSE 1)
                    * (IntOf(SubSeq(u, 1, dot - 1)) * 1000
                       + IntOf(SubSeq(u, dot + 1, Len(u)) \o SubSeq("000", 1, 3 - (Len(u) - dot)))))]

\* float() of a stripped string t
float_of_stripped(s, t) ==
    IF Len(t) > 0 /\ SubSeq(t, 1, 1) \in {"+", "-"}
    THEN float_of_unsigned(s, SubSeq(t, 1, 1) = "-", SubSeq(t, 2, Len(t)), DotAt(SubSeq(t, 2, Len(t))))
    ELSE float_of_unsigned(s, FALSE, t, DotAt(t))

\* float(s) for a string: blanks stripped, an optional sign, then nan, inf,
\* infinity (any case) or a plain decimal with at most three fractional
\* digits; anything else is a ValueError.  (Exponents and underscores, which
\* float() also accepts, are outside the strings the model sends.)
float_of_str(s) == float_of_stripped(s, Strip(s))

\* float(x) for a JSON value
py_float(x) ==
    CASE x.t = "num"  -> [exc |-> NoExc, v |-> Fin(x.n)]
      [] x.t = "bool" -> [exc |-> NoExc, v |-> Fin(x.n * 1000)]
      [] x.t = "str"  -> float_of_str(x.s)
      [] x.t = "bigint" -> [exc |-> Exc("OverflowError", "int too large to convert to float"), v |-> NaN]
      [] OTHER -> [exc |-> Exc("TypeError", "float() argument must be a string or a real number, not '"
                                             \o TypeName(x.t) \o "'"),
                   v |-> NaN]

\* a <= c and a > c for a float a and an integer c (in thousandths); every
\* comparison with nan is False
float_le(a, c) == a.k = "-inf" \/ (a.k = "fin" /\ a.m <= c)
float_gt(a, c) == a.k = "inf" \/ (a.k = "fin" /\ a.m > c)

\* the digits of a non-negative number of thousandths, as repr() prints the
\* float: 5500 is "5.5", 5000 is "5.0"
format_thousandths(a) ==
    ToString(a \div 1000) \o "."
        \o (IF a % 100 = 0 THEN ToString((a % 1000) \div 100)
            ELSE IF a % 10 = 0 THEN (IF a % 1000 < 100 THEN "0" ELSE "") \o ToString((a % 1000) \div 10)
            ELSE (IF a % 1000 < 10 THEN "00" ELSE IF a % 1000 < 100 THEN "0" ELSE "") \o ToString(a % 1000))

\* str(x), as an f-string formats a JSON value
py_str(x) ==
    CASE x.t = "str"  -> x.s
      [] x.t = "null" -> "None"
      [] x.t = "bool" -> IF x.n = 1 THEN "True" ELSE "False"
      [] x.t = "list" -> "[]"
      [] x.t = "dict" -> "{}"
      [] x.t = "bigint" -> "1" \o Join([i \in 1..40 |-> "0000000000"], "")
      [] OTHER -> (IF x.n < 0 THEN "-" ELSE "") \o format_thousandths(IF x.n < 0 THEN 0 - x.n ELSE x.n)

\* x in values, for a JSON value and a list of strings
py_in_list(x, values) == x.t = "str" /\ \E i \in 1..Len(values) : values[i] = x.s

-----------------------------------------------------------------------------
(* backend/app.py: constants and validation *)

EXPECTED_COLUMNS == <<"Distance_km", "Fuel_Price", "Time_of_Day", "Weather", "Vehicle_Type">>

\* VALID_VALUES in the order the dict is written (the order .items() yields).
\* The strings of this module are ASCII: the peso sign U+20B1 of the source
\* is written "~" throughout, a character no label, field name or message
\* of the source contains and which, like the peso sign, sorts after every
\* other character of the labels
backend_VALID_VALUES == <<
    [field |-> "Fuel_Price",
     values |-> <<"~20-29", "~30-39", "~40-49", "~50-59", "~60-69", "~70-79", "~80-89", "~90-99", "~100 & up">>],
    [field |-> "Time_of_Day", values |-> <<"Rush Hour Morning", "Off-Peak", "Rush Hour Evening">>],
    [field |-> "Weather", values |-> <<"Sunny", "Rainy">>],
    [field |-> "Vehicle_Type", values |-> <<"Single Motor", "Tricycle">> ] >>

\* the sanity ceiling of Distance_km, in km
backend_max_distance == 100

\* what a validator does: return (is_valid, error_message) or raise
Return(ok, msg) == [exc |-> NoExc, ok |-> ok, msg |-> msg]
Raise(e) == [exc |-> e, ok |-> FALSE, msg |-> ""]

\* a presence loop that keeps going after an absent column and so reports
\* the last absent one
missing_field_last(data, columns, i) ==
    IF \E j \in i..Len(columns) : py_in(columns[j], data).exc # NoExc
    THEN [exc |-> py_in(columns[i], data).exc, column |-> ""]
    ELSE IF \A j \in i..Len(columns) : py_in(columns[j], data).v THEN [exc |-> NoExc, column |-> ""]
    ELSE [exc |-> NoExc,
          column |-> columns[CHOOSE j \in i..Len(columns) :
                                /\ ~py_in(columns[j], data).v
                                /\ \A k \in (j + 1)..Len(columns) : py_in(columns[k], data).v]]

RECURSIVE missing_field(_, _, _)
\* the loop `for column in columns: if column not in data: return ...` from
\* position i on: the first absent column, "" when none is absent, or the
\* exception the membership test raises
missing_field(data, columns, i) ==
    IF i > Len(columns) THEN [exc |-> NoExc, column |-> ""]
    ELSE IF py_in(columns[i], data).exc # NoExc THEN [exc |-> py_in(columns[i], data).exc, column |-> ""]
    ELSE IF ~py_in(columns[i], data).v THEN [exc |-> NoExc, column |-> columns[i]]
    ELSE missing_field(data, columns, i + 1)

\* a categorical loop that reports the last invalid field
invalid_field_last(data, valid, i) ==
    IF \A j \in i..Len(valid) : py_in_list(data.d[valid[j].field], valid[j].values) THEN 0
    ELSE CHOOSE j \in i..Len(valid) :
            /\ ~py_in_list(data.d[valid[j].field], valid[j].values)
            /\ \A k \in (j + 1)..Len(valid) : py_in_list(data.d[valid[k].field], valid[k].values)

RECURSIVE invalid_field(_, _, _)
\* the loop `for field, valid_values in VALID_VALUES.items()` from position i
\* on: the first entry whose value is not in its list, or 0
invalid_field(data, valid, i) ==
    IF i > Len(valid) THEN 0
    ELSE IF ~py_in_list(data.d[valid[i].field], valid[i].values) THEN i
    ELSE invalid_field(data, valid, i + 1)

invalid_message(data, entry) ==
    "Invalid " \o entry.field \o ": '" \o py_str(data.d[entry.field])
        \o "'. Must be one of: " \o Join(entry.values, ", ")

\* range checks that let a distance of 0 through
check_range_zero(distance, ceiling, unrealistic) ==
    IF float_le(distance, -1) THEN Return(FALSE, "Distance must be greater than 0")
    ELSE IF float_gt(distance, ceiling * 1000) THEN Return(FALSE, unrealistic)
    ELSE Return(TRUE, None)

\* the range checks on distance = float(data['Distance_km'])
check_range(distance, ceiling, unrealistic) ==
    IF float_le(distance, 0) THEN Return(FALSE, "Distance must be greater than 0")
    ELSE IF float_gt(distance, ceiling * 1000) THEN Return(FALSE, unrealistic)
    ELSE Return(TRUE, None)

\* `except (ValueError, TypeError)` around the conversion f = float(...):
\* those two become the "valid number" message, any other exception leaves
\* the function
check_float(f, ceiling, unrealistic) ==
    IF f.exc.type \in {"ValueError", "TypeError"} THEN Return(FALSE, "Distance_km must be a valid number")
    ELSE IF f.exc # NoExc THEN Raise(f.exc)
    ELSE check_range(f.v, ceiling, unrealistic)

\* the try block around float(data['Distance_km']); item is data['Distance_km']
check_distance(item, ceiling, unrealistic) ==
    IF item.exc # NoExc THEN check_float([exc |-> item.exc, v |-> NaN], ceiling, unrealistic)
    ELSE check_float(py_float(item.v), ceiling, unrealistic)

\* the categorical loop; c is the position of the first invalid field, or 0
check_categories(data, valid, c) ==
    IF c # 0 THEN Return(FALSE, invalid_message(data, valid[c]))
    ELSE Return(TRUE, None)

\* the part of validate_input_data after the presence loop; d is the verdict
\* of the distance block
check_values(data, valid, d) ==
    IF d.exc # NoExc \/ ~d.ok THEN d
    ELSE check_categories(data, valid, invalid_field(data, valid, 1))

\* validate_input_data once the presence loop gave m
backend_validate_present(data, m) ==
    IF m.exc # NoExc THEN Raise(m.exc)
    ELSE IF m.column # "" THEN Return(FALSE, "Missing required field: " \o m.column)
    ELSE check_values(data, backend_VALID_VALUES,
                      check_distance(py_getitem(data, "Distance_km"), backend_max_distance,
                                     "Distance seems unrealistic (> 100 km for Tagum City)"))

backend_validate_input_data(data) ==
    backend_validate_present(data, missing_field(data, EXPECTED_COLUMNS, 1))

-----------------------------------------------------------------------------
(* api/predict.py: constants and validation *)

api_VALID_VALUES == <<
    [field |-> "Fuel_Price",
     values |-> <<"20-29", "30-39", "40-49", "50-59", "60-69", "70-79", "80-89", "90-99", "100&up">>],
    [field |-> "Time_of_Day", values |-> <<"Rush Hour Morning", "Off-Peak", "Rush Hour Evening">>],
    [field |-> "Weather", values |-> <<"Sunny", "Rainy">>],
    [field |-> "Vehicle_Type", values |-> <<"Single Motor", "Tricycle">> ] >>

required_fields == <<"Distance_km", "Fuel_Price", "Time_of_Day", "Weather", "Vehicle_Type">>

api_max_distance == 1000

api_validate_present(data, m) ==
    IF m.exc # NoExc THEN Raise(m.exc)
    ELSE IF m.column # "" THEN Return(FALSE, "Missing required field: " \o m.column)
    ELSE check_values(data, api_VALID_VALUES,
                      check_distance(py_getitem(data, "Distance_km"), api_max_distance,
                                     "Distance seems unrealistic (> 1000 km)"))

api_validate_input_data(data) ==
    api_validate_present(data, missing_field(data, required_fields, 1))

validate_input_data(a, data) ==
    IF a = "backend" THEN backend_validate_input_data(data) ELSE api_validate_input_data(data)

-----------------------------------------------------------------------------
(* The persisted artifacts the serving modules load *)

\* fuel_price_order, as train_tagum_model.py writes it: each label starts
\* with the three characters U+201A U+00C7 U+00B1 (written ",C+" here, see
\* backend_VALID_VALUES), not with the peso sign U+20B1
fuel_price_order == <<",C+20-29", ",C+30-39", ",C+40-49", ",C+50-59",
                      ",C+60-69", ",C+70-79", ",C+80-89", ",C+90-99", ",C+100 & up">>

\* preprocessor.pkl holds the ColumnTransformer train_tagum_model.py fitted;
\* its OrdinalEncoder knows the Fuel_Price labels of the script that ran:
\* the script as it stands in the repository ("script"), or a run whose
\* labels carried the peso sign backend/app.py validates against ("peso")
PreprocessorArtifacts == {"preprocessor.pkl:script", "preprocessor.pkl:peso"}

ordinal_categories(p) ==
    IF p = "preprocessor.pkl:script" THEN fuel_price_order ELSE backend_VALID_VALUES[1].values

\* model.pkl is written by train_model.py (5 label-encoded features) and by
\* train_tagum_model.py (9 features: 1 ordinal, 7 one-hot, 1 passthrough)
ModelArtifacts == {"model.pkl:train_model", "model.pkl:train_tagum_model"}

n_features_in(m) == IF m = "model.pkl:train_model" THEN 5 ELSE 9

\* metadata.pkl: the dict train_tagum_model.py saves ("loaded"), an empty
\* dict, or a dict without the r2 / mae entries
MetadataArtifacts == {Loaded, "empty", "no_metrics"}

\* the values model.predict can return, in thousandths: k/8 and its two
\* neighbours, so that exact ties (0.125) and their near misses occur
Predictions == { k * 125 + e : k \in (0 - MaxEighths)..MaxEighths, e \in {-1, 0, 1} }

-----------------------------------------------------------------------------
(* Encoding and prediction *)

Index(seq, x) == IF \E i \in 1..Len(seq) : seq[i] = x
                 THEN CHOOSE i \in 1..Len(seq) : seq[i] = x
                 ELSE 0

OneHot(categories, x) == [i \in 1..Len(categories) |-> Fin(IF categories[i] = x THEN 1000 ELSE 0)]

\* the categories OneHotEncoder learns: the sorted labels of the column
onehot_categories == <<
    <<"Off-Peak", "Rush Hour Evening", "Rush Hour Morning">>,
    <<"Rainy", "Sunny">>,
    <<"Single Motor", "Tricycle">> >>

\* backend/app.py prepare_and_predict up to scaler.transform: the DataFrame of
\* the five expected columns, preprocessor.transform (ordinal Fuel_Price,
\* which raises on an unknown label; one-hot for the rest, unknown labels
\* ignored; Distance_km passed through, last) and the scaler, which keeps
\* the shape
backend_transform(cats, fuel, data) ==
    IF Index(cats, fuel) = 0
    THEN [exc |-> Exc("ValueError", "Found unknown categories ['" \o fuel \o "'] in column 0 during transform"),
          x |-> <<>>]
    ELSE [exc |-> NoExc,
          x |-> <<Fin((Index(cats, fuel) - 1) * 1000)>>
                \o OneHot(onehot_categories[1], py_str(data.d["Time_of_Day"]))
                \o OneHot(onehot_categories[2], py_str(data.d["Weather"]))
                \o OneHot(onehot_categories[3], py_str(data.d["Vehicle_Type"]))
                \o <<py_float(data.d["Distance_km"]).v>>]

backend_encode(p, data) == backend_transform(ordinal_categories(p), py_str(data.d["Fuel_Price"]), data)

\* api/predict.py: the static tables of prepare_input_dataframe
encodings == <<
    [field |-> "Fuel_Price",
     labels |-> <<"100&up", "20-29", "30-39", "40-49", "50-59", "60-69", "70-79", "80-89", "90-99">>,
     codes |-> <<0, 1, 2, 3, 4, 5, 6, 7, 8>>],
    [field |-> "Time_of_Day",
     labels |-> <<"Off-Peak", "Rush Hour Evening", "Rush Hour Morning">>, codes |-> <<0, 1, 2>>],
    [field |-> "Weather", labels |-> <<"Rainy", "Sunny">>, codes |-> <<0, 1>>],
    [field |-> "Vehicle_Type", labels |-> <<"Single Motor", "Tricycle">>, codes |-> <<0, 1>>] >>

\* Series.map(dict): the code of the label, NaN for a label the dict lacks
map_encoding(entry, x) ==
    IF x.t = "str" /\ Index(entry.labels, x.s) # 0
    THEN Fin(entry.codes[Index(entry.labels, x.s)] * 1000)
    ELSE NaN

\* api/predict.py prepare_input_dataframe: Distance_km as a float, then the
\* four codes, in the order of categorical_columns
prepare_input_dataframe(data) ==
    <<py_float(data.d["Distance_km"]).v>>
        \o [i \in 1..Len(encodings) |-> map_encoding(encodings[i], data.d[encodings[i].field])]

HasNaN(x) == \E i \in 1..Len(x) : x[i].k # "fin"

\* the labels sample_data_generator.py draws the training columns from, in
\* the order of train_model.py's categorical_columns
training_labels == <<
    [field |-> "Fuel_Price",
     values |-> <<"20-29", "30-39", "40-49", "50-59", "60-69", "70-79", "80-89", "90-99", "100&up">>],
    [field |-> "Time_of_Day", values |-> <<"Rush Hour Morning", "Off-Peak", "Rush Hour Evening">>],
    [field |-> "Weather", values |-> <<"Sunny", "Rainy">>],
    [field |-> "Vehicle_Type", values |-> <<"Single Motor", "Tricycle">> ] >>

\* the characters of the labels, in code point order
CharOrder == " &-0123456789ABCDEFGHIJKLMNOPQRSTUVWXYZabcdefghijklmnopqrstuvwxyz~"

Ord(c) == CHOOSE i \in 1..Len(CharOrder) : SubSeq(CharOrder, i, i) = c

RECURSIVE StrLess(_, _)
\* a < b for two strings, as sorting compares them
StrLess(a, b) ==
    IF Len(b) = 0 THEN FALSE
    ELSE IF Len(a) = 0 THEN TRUE
    ELSE IF SubSeq(a, 1, 1) # SubSeq(b, 1, 1) THEN Ord(SubSeq(a, 1, 1)) < Ord(SubSeq(b, 1, 1))
    ELSE StrLess(SubSeq(a, 2, Len(a)), SubSeq(b, 2, Len(b)))

\* LabelEncoder().fit_transform: classes_ are the sorted labels of the
\* column, the code of a label is its position among them, from 0
label_code(labels, x) == Cardinality({ i \in 1..Len(labels) : StrLess(labels[i], x) })

\* train_model.py preprocess_data on one record: Distance_km, then the four
\* label codes, in the order of feature_columns
preprocess_data(data) ==
    <<py_float(data.d["Distance_km"]).v>>
        \o [i \in 1..Len(training_labels) |->
               Fin(label_code(training_labels[i].values, py_str(data.d[training_labels[i].field])) * 1000)]

\* round(v, 2) of a float given in thousandths: to the nearest hundredth,
\* an exact tie to the even one
py_round2(v) ==
    IF v % 10 < 5 THEN (v \div 10) * 10
    ELSE IF v % 10 > 5 THEN (v \div 10 + 1) * 10
    ELSE IF (v \div 10) % 2 = 0 THEN (v \div 10) * 10 ELSE (v \div 10 + 1) * 10

py_max(a, b) == IF b > a THEN b ELSE a

\* the rounding without the floor
backend_predicted_fare_unclamped(v) == py_round2(v)

\* backend/app.py predict: round to 2 decimals, then the non-negative floor
backend_predicted_fare(v) == py_max(0, py_round2(v))

\* api/predict.py predict: round(float(prediction[0]), 2)
api_predicted_fare(v) == py_round2(v)

-----------------------------------------------------------------------------
(* HTTP requests and responses *)

\* a response: the status and the JSON body, given by the set of its keys
\* and the value of each key it has (body_status is the body's 'status'
\* entry, status the HTTP status)
NoPipelineStatus == [model |-> "", preprocessor |-> "", scaler |-> "", metadata |-> ""]

NoResponse == [status |-> 0, keys |-> {}, error |-> "", details |-> "",
               valid_fuel_prices |-> <<>>, predicted_fare |-> 0, input |-> NullBody,
               message |-> "", pipeline_status |-> NoPipelineStatus, model_metrics |-> {},
               valid_values |-> <<>>, model_info |-> [r2_score |-> "", mae |-> ""],
               body_status |-> ""]

\* jsonify({'error': msg}), status
error_response(status, msg) ==
    [NoResponse EXCEPT !.status = status, !.keys = {"error"}, !.error = msg]

\* an except branch that keeps the exception text to itself
prediction_error_opaque(e) ==
    [NoResponse EXCEPT !.status = 500, !.keys = {"error"},
                       !.error = "Internal server error during prediction"]

\* the handlers' `except Exception as e` branch
prediction_error(e) ==
    [NoResponse EXCEPT !.status = 500, !.keys = {"error", "details"},
                       !.error = "Internal server error during prediction", !.details = e.text]

\* request.get_json() on a body that is not JSON raises werkzeug's BadRequest
bad_request == Exc("BadRequest", "400 Bad Request: Failed to decode JSON object")

\* the validator was not called
NoVerdict == [exc |-> NoExc, ok |-> FALSE, msg |-> ""]

\* a handler that answers before it validates
reply(r) == [verdict |-> NoVerdict, response |-> r, raised |-> NoExc]

\* a handler in which e is raised before it validates
reply_raised(e) == [verdict |-> NoVerdict, response |-> prediction_error(e), raised |-> e]

\* a handler that reports a refused request as an internal error
backend_validation_response_500(v) ==
    [verdict |-> v, raised |-> v.exc,
     response |-> IF v.exc # NoExc \/ ~v.ok THEN prediction_error(Exc("ValueError", v.msg))
                  ELSE NoResponse]

\* backend/app.py predict: what follows the verdict v of validate_input_data
\* (NoResponse: the handler goes on to predict)
backend_validation_response(v) ==
    [verdict |-> v, raised |-> v.exc,
     response |-> IF v.exc # NoExc THEN prediction_error(v.exc)
                  ELSE IF ~v.ok
                       THEN [NoResponse EXCEPT !.status = 400, !.keys = {"error", "valid_fuel_prices"},
                                               !.error = v.msg,
                                               !.valid_fuel_prices = backend_VALID_VALUES[1].values]
                  ELSE NoResponse]

\* a handler that answers every refused request with one fixed text
api_validation_response_generic(v) ==
    [verdict |-> v, raised |-> v.exc,
     response |-> IF v.exc # NoExc THEN prediction_error(v.exc)
                  ELSE IF ~v.ok THEN error_response(400, "Invalid input")
                  ELSE NoResponse]

\* a handler that goes on to predict when a categorical value was refused
api_validation_response_lenient(v) ==
    [verdict |-> v, raised |-> v.exc,
     response |-> IF v.exc # NoExc THEN prediction_error(v.exc)
                  ELSE IF ~v.ok /\ ~IsSubstring("Invalid ", v.msg) THEN error_response(400, v.msg)
                  ELSE NoResponse]

\* api/predict.py predict: what follows the verdict v of validate_input_data
api_validation_response(v) ==
    [verdict |-> v, raised |-> v.exc,
     response |-> IF v.exc # NoExc THEN prediction_error(v.exc)
                  ELSE IF ~v.ok THEN error_response(400, v.msg)
                  ELSE NoResponse]

\* a handler that looks at the content type before it looks at the pipeline
backend_check_request_json_first(m, p, sc, req) ==
    IF req.content = "not_json" THEN reply(error_response(400, "Request must be JSON"))
    ELSE IF m = None \/ p = None \/ sc = None
    THEN reply(error_response(500, "Model pipeline not available. Please contact administrator."))
    ELSE IF req.content = "malformed" THEN reply_raised(bad_request)
    ELSE backend_validation_response(backend_validate_input_data(req.data))

\* backend/app.py predict, from its entry to the validation verdict: the
\* validator's verdict and the response it returns there
backend_check_request(m, p, sc, req) ==
    IF m = None \/ p = None \/ sc = None
    THEN reply(error_response(500, "Model pipeline not available. Please contact administrator."))
    ELSE IF req.content = "not_json" THEN reply(error_response(400, "Request must be JSON"))
    ELSE IF req.content = "malformed" THEN reply_raised(bad_request)
    ELSE backend_validation_response(backend_validate_input_data(req.data))

\* api/predict.py predict, from its entry to the validation verdict
api_check_request(m, req) ==
    IF m = None THEN reply(error_response(500, "Model not available"))
    ELSE IF req.content = "not_json" THEN reply(error_response(400, "Request must be JSON"))
    ELSE IF req.content = "malformed" THEN reply_raised(bad_request)
    ELSE api_validation_response(api_validate_input_data(req.data))

check_request(a, m, p, sc, req) ==
    IF a = "backend" THEN backend_check_request(m, p, sc, req) ELSE api_check_request(m, req)

\* a response that echoes the row given to the encoder: the five expected
\* columns, Distance_km as the converted float
fare_response_row(fare, data) ==
    [NoResponse EXCEPT !.status = 200, !.keys = {"predicted_fare", "input"},
                       !.predicted_fare = fare,
                       !.input = DictBody([c \in {EXPECTED_COLUMNS[i] : i \in 1..Len(EXPECTED_COLUMNS)} |->
                                              IF c = "Distance_km" THEN JNum(py_float(data.d[c]).v.m)
                                              ELSE data.d[c]])]

\* jsonify({'predicted_fare': ..., 'input': data}), 200
fare_response(fare, data) ==
    [NoResponse EXCEPT !.status = 200, !.keys = {"predicted_fare", "input"},
                       !.predicted_fare = fare, !.input = data]

-----------------------------------------------------------------------------
(* The requests the clients send *)

Absent == [t |-> "absent", s |-> "", n |-> 0]

DistanceValues == {JNum(-3200), JNum(0), JNum(5500), JNum(100000), JNum(100001),
                   JNum(1000000), JNum(1500000),
                   JStr("5.5"), JStr("abc"), JStr("nan"),
                   JNull, JList, JDict, JBool(TRUE), JBigInt}
FuelValues == {JStr("~60-69"), JStr("~100 & up"), JStr("60-69"), JStr("40-49"), JStr("80-89"),
               JStr("100&up"), JStr("invalid-price"), JNull}
TimeValues == {JStr("Rush Hour Morning"), JStr("Off-Peak"), JStr("Rush Hour Evening"), JStr("Midnight")}
WeatherValues == {JStr("Sunny"), JStr("Rainy"), JStr("Snowy")}
VehicleValues == {JStr("Single Motor"), JStr("Tricycle"), JStr("Bus")}

\* the JSON object holding the keys whose value is not Absent
MakeDict(dist, fuel, time, weather, vehicle) ==
    LET all == [c \in {"Distance_km", "Fuel_Price", "Time_of_Day", "Weather", "Vehicle_Type"} |->
                  CASE c = "Distance_km" -> dist
                    [] c = "Fuel_Price" -> fuel
                    [] c = "Time_of_Day" -> time
                    [] c = "Weather" -> weather
                    [] OTHER -> vehicle]
    IN  DictBody([c \in {k \in DOMAIN all : all[k] # Absent} |-> all[c]])

PlainBodies == { MakeDict(d, f, t, w, v) :
                  d \in DistanceValues \cup {Absent}, f \in FuelValues \cup {Absent},
                  t \in TimeValues \cup {Absent}, w \in WeatherValues \cup {Absent},
                  v \in VehicleValues \cup {Absent} }

\* the object b with one more key, which the handlers do not know
WithExtra(b) ==
    DictBody([k \in DOMAIN b.d \cup {"Passenger_Count"} |->
                 IF k = "Passenger_Count" THEN JNum(2000) ELSE b.d[k]])

DictBodies == PlainBodies \cup { WithExtra(b) : b \in PlainBodies }

OtherBodies == {ListBody(<<>>), ListBody(EXPECTED_COLUMNS),
                StrBody("Distance_km"), StrBody(Join(EXPECTED_COLUMNS, ",")),
                NumBody, NullBody}

\* POST /predict with a JSON body, with a body that is not declared JSON,
\* and with a body declared JSON that does not parse
Requests == { [path |-> "/predict", content |-> "json", data |-> b] : b \in DictBodies \cup OtherBodies }
            \cup { [path |-> "/predict", content |-> c, data |-> NullBody] : c \in {"not_json", "malformed"} }

\* GET <path>
Get(path) == [path |-> path, content |-> "none", data |-> NullBody]

NoRequest == [path |-> "", content |-> "none", data |-> NullBody]

-----------------------------------------------------------------------------
(* backend/app.py: the other endpoints *)

\* `if metadata`: None and the empty dict are false
metadata_truthy(md) == md \notin {None, "empty"}

\* metadata['r2'] and the other metrics the handlers read: present or KeyError
metadata_lookup(md) ==
    IF md = Loaded THEN NoExc ELSE Exc("KeyError", "'r2'")

\* @app.errorhandler(500): the answer to an exception no handler caught
internal_error ==
    [NoResponse EXCEPT !.status = 500, !.keys = {"error", "message"},
                       !.error = "Internal server error",
                       !.message = "Something went wrong on our end"]

\* @app.errorhandler(404)
not_found ==
    [NoResponse EXCEPT !.status = 404, !.keys = {"error", "message", "available_endpoints"},
                       !.error = "Endpoint not found",
                       !.message = "Please check the API documentation"]

\* what a view function does: the exception it raises (NoExc: none) and the
\* response the client gets
returned(r) == [raised |-> NoExc, response |-> r]
uncaught(e) == [raised |-> e, response |-> internal_error]

\* home(): GET /
home(md) ==
    IF metadata_truthy(md) /\ metadata_lookup(md) # NoExc THEN uncaught(metadata_lookup(md))
    ELSE returned([NoResponse EXCEPT
                      !.status = 200,
                      !.keys = {"status", "message", "version", "model_info", "endpoints"},
                      !.body_status = "online",
                      !.message = "Tagum Tricycle Fare Optimizer API",
                      !.model_info = IF metadata_truthy(md)
                                     THEN [r2_score |-> "{r2:.4f}", mae |-> "~{mae:.2f}"]
                                     ELSE [r2_score |-> "N/A", mae |-> "N/A"]])

\* 'loaded' if <global> is not None else 'not loaded'
loaded_status(g) == IF g # None THEN "loaded" ELSE "not loaded"

\* health(): the pipeline_status dict
pipeline_status(m, p, sc, md) ==
    [model |-> loaded_status(m), preprocessor |-> loaded_status(p),
     scaler |-> loaded_status(sc), metadata |-> loaded_status(md)]

\* health(): GET /health
health(m, p, sc, md) ==
    IF metadata_truthy(md) /\ metadata_lookup(md) # NoExc THEN uncaught(metadata_lookup(md))
    ELSE returned([NoResponse EXCEPT
                      !.status = 200,
                      !.keys = {"status", "pipeline_status", "model_metrics", "api_version"},
                      !.body_status = "healthy",
                      !.pipeline_status = pipeline_status(m, p, sc, md),
                      !.model_metrics = IF metadata_truthy(md)
                                        THEN {"r2_score", "mae", "mse", "training_samples", "test_samples"}
                                        ELSE {}])

\* a listing that was not updated with the validator's table
valid_values_unprefixed == returned([NoResponse EXCEPT !.status = 200, !.keys = {"valid_values"},
                                                       !.valid_values = api_VALID_VALUES])

\* valid_values(): GET /valid-values
valid_values == returned([NoResponse EXCEPT !.status = 200, !.keys = {"valid_values"},
                                             !.valid_values = backend_VALID_VALUES])

\* the routes of backend/app.py that answer GET
Paths == {"/", "/health", "/valid-values", "/unknown"}

\* the view function behind a GET, or the 404 handler
dispatch(path, m, p, sc, md) ==
    CASE path = "/" -> home(md)
      [] path = "/health" -> health(m, p, sc, md)
      [] path = "/valid-values" -> valid_values
      [] OTHER -> returned(not_found)

-----------------------------------------------------------------------------
(* The state machine *)

NoWorkers == <<>>

Init ==
    /\ app \in {"backend", "api"}
    /\ phase = "import"
    /\ load_result = "n/a"
    /\ model = None
    /\ preprocessor = None
    /\ scaler = None
    /\ metadata = None
    /\ pc = "idle"
    /\ request = NoRequest
    /\ verdict = NoVerdict
    /\ features = <<>>
    /\ prediction = 0
    /\ response = NoResponse
    /\ raised = NoExc
    /\ steps = <<>>
    /\ workers = NoWorkers

\* the handler-local state of the request being served
context == <<pc, request, verdict, features, prediction, response, raised, steps>>

\* the request context of an idle server
IdleContext == <<"idle", NoRequest, NoVerdict, <<>>, 0, NoResponse, NoExc, <<>>>>

\* backend/app.py, module import: load_pipeline().  stop = 0: a file is
\* missing; stop = k in 1..4: the k-th joblib.load raises; stop = 5: the four
\* loads succeed and the metrics are logged, which raises when the metadata
\* lacks them.
load_pipeline(stop, m, p, md) ==
    [model |-> IF stop >= 2 THEN m ELSE None,
     preprocessor |-> IF stop >= 3 THEN p ELSE None,
     scaler |-> IF stop >= 4 THEN Loaded ELSE None,
     metadata |-> IF stop >= 5 THEN md ELSE None,
     result |-> IF stop = 5 /\ md = Loaded THEN "True" ELSE "False"]

LoadPipeline ==
    /\ app = "backend" /\ phase = "import"
    /\ \E stop \in 0..5, m \in ModelArtifacts, p \in PreprocessorArtifacts, md \in MetadataArtifacts :
         \E g \in {load_pipeline(stop, m, p, md)} :
             /\ model' = g.model
             /\ preprocessor' = g.preprocessor
             /\ scaler' = g.scaler
             /\ metadata' = g.metadata
             /\ load_result' = g.result
    /\ phase' = "serving"
    /\ UNCHANGED <<app, context, workers>>

\* api/predict.py, module import: joblib.load(model_path) in a try block
LoadModel ==
    /\ app = "api" /\ phase = "import"
    /\ model' \in ModelArtifacts \cup {None}
    /\ phase' = "serving"
    /\ UNCHANGED <<app, load_result, preprocessor, scaler, metadata, context, workers>>

globals == <<app, phase, load_result, model, preprocessor, scaler, metadata>>

\* a client sends POST /predict
Receive ==
    /\ phase = "serving" /\ pc = "idle" /\ workers = NoWorkers
    /\ request' \in Requests
    /\ pc' = "received"
    /\ steps' = <<"Received">>
    /\ UNCHANGED <<globals, verdict, features, prediction, response, raised, workers>>

\* predict(): pipeline check, is_json, get_json, validate_input_data
Validate ==
    /\ pc = "received"
    /\ \E r \in {check_request(app, model, preprocessor, scaler, request)} :
           /\ verdict' = r.verdict
           /\ raised' = r.raised
           /\ IF r.response = NoResponse
              THEN pc' = "validated" /\ steps' = Append(steps, "Validated") /\ UNCHANGED response
              ELSE pc' = "responded" /\ steps' = Append(steps, "Responded") /\ response' = r.response
    /\ UNCHANGED <<globals, request, features, prediction, workers>>

\* predict(): the encoding half of prepare_and_predict (backend), and
\* prepare_input_dataframe (api)
Encode ==
    /\ pc = "validated"
    /\ IF app = "backend"
       THEN \E e \in {backend_encode(preprocessor, request.data)} :
                IF e.exc # NoExc
                THEN /\ pc' = "responded" /\ steps' = Append(steps, "Responded")
                     /\ raised' = e.exc
                     /\ response' = prediction_error(e.exc)
                     /\ UNCHANGED features
                ELSE /\ pc' = "encoded" /\ steps' = Append(steps, "Encoded")
                     /\ features' = e.x
                     /\ UNCHANGED <<response, raised>>
       ELSE /\ pc' = "encoded" /\ steps' = Append(steps, "Encoded")
            /\ features' = prepare_input_dataframe(request.data)
            /\ UNCHANGED <<response, raised>>
    /\ UNCHANGED <<globals, request, verdict, prediction, workers>>

\* model.predict(X) on a matrix of the wrong width
width_error == Exc("ValueError", "X has a different number of features than the regressor is expecting")

\* model.predict(X) on a matrix with NaN, in a library version that refuses it
nan_error == Exc("ValueError", "Input X contains NaN.")

\* model.predict(X): raises when X has not the width the regressor was
\* fitted on; on a NaN input it raises or answers, depending on the
\* library version that pickled it; otherwise it returns some fare
Predict ==
    /\ pc = "encoded"
    /\ \/ /\ Len(features) # n_features_in(model)
          /\ pc' = "responded" /\ steps' = Append(steps, "Responded")
          /\ raised' = width_error
          /\ response' = prediction_error(width_error)
          /\ UNCHANGED prediction
       \/ /\ Len(features) = n_features_in(model)
          /\ HasNaN(features)
          /\ pc' = "responded" /\ steps' = Append(steps, "Responded")
          /\ raised' = nan_error
          /\ response' = prediction_error(nan_error)
          /\ UNCHANGED prediction
       \/ /\ Len(features) = n_features_in(model)
          /\ prediction' \in Predictions
          /\ pc' = "predicted" /\ steps' = Append(steps, "Predicted")
          /\ UNCHANGED <<response, raised>>
    /\ UNCHANGED <<globals, request, verdict, features, workers>>

\* the fare the running variant puts in the response
predicted_fare(a, v) == IF a = "backend" THEN backend_predicted_fare(v) ELSE api_predicted_fare(v)

\* predict(): rounding (and, in the backend, the floor) and the 200 response
Respond ==
    /\ pc = "predicted"
    /\ response' = fare_response(predicted_fare(app, prediction), request.data)
    /\ pc' = "responded" /\ steps' = Append(steps, "Responded")
    /\ UNCHANGED <<globals, request, verdict, features, prediction, raised, workers>>

\* a health check that loads the model again when it finds none
Serve_reload ==
    /\ app = "backend" /\ phase = "serving" /\ pc = "idle" /\ workers = NoWorkers
    /\ model' = IF model = None THEN "model.pkl:train_tagum_model" ELSE model
    /\ request' = Get("/health")
    /\ raised' = health(model', preprocessor, scaler, metadata).raised
    /\ response' = health(model', preprocessor, scaler, metadata).response
    /\ pc' = "responded"
    /\ steps' = <<"Received", "Responded">>
    /\ UNCHANGED <<app, phase, load_result, preprocessor, scaler, metadata,
                   verdict, features, prediction, workers>>

\* backend/app.py: a client sends GET <path>; the view function answers
Serve ==
    /\ app = "backend" /\ phase = "serving" /\ pc = "idle" /\ workers = NoWorkers
    /\ \E path \in Paths :
          \E r \in {dispatch(path, model, preprocessor, scaler, metadata)} :
              /\ request' = Get(path)
              /\ raised' = r.raised
              /\ response' = r.response
    /\ pc' = "responded"
    /\ steps' = <<"Received", "Responded">>
    /\ UNCHANGED <<globals, verdict, features, prediction, workers>>

\* the response is sent and the request context is torn down
Finish ==
    /\ pc = "responded"
    /\ pc' = "idle"
    /\ request' = NoRequest
    /\ verdict' = NoVerdict
    /\ features' = <<>>
    /\ prediction' = 0
    /\ response' = NoResponse
    /\ raised' = NoExc
    /\ steps' = <<>>
    /\ UNCHANGED <<globals, workers>>

Next == LoadPipeline \/ LoadModel \/ Receive \/ Validate \/ Encode \/ Predict \/ Respond \/ Serve \/ Finish

Spec == Init /\ [][Next]_vars

-----------------------------------------------------------------------------
(* Concurrent requests: one handler-local state per request in flight *)

\* the number of requests the server handles at the same time
NWorkers == 2

\* a request in flight: the local variables of its predict() call
IdleWorker == [pc |-> "idle", request |-> NoRequest, verdict |-> NoVerdict,
               features |-> <<>>, prediction |-> 0, response |-> NoResponse]

\* the requests the concurrent clients send: the scenario payload in both
\* vocabularies, a refused category, a missing key, a distance of "nan", a
\* null body, and the two kinds of body that is no JSON
ConcRequests ==
    { [path |-> "/predict", content |-> "json", data |-> b] :
        b \in { MakeDict(JNum(5500), JStr("~60-69"), JStr("Rush Hour Morning"), JStr("Sunny"), JStr("Tricycle")),
                MakeDict(JNum(5500), JStr("60-69"), JStr("Rush Hour Morning"), JStr("Sunny"), JStr("Tricycle")),
                MakeDict(JStr("5.5"), JStr("~100 & up"), JStr("Off-Peak"), JStr("Snowy"), JStr("Single Motor")),
                MakeDict(JNum(5500), JStr("40-49"), Absent, JStr("Rainy"), JStr("Tricycle")),
                MakeDict(JStr("nan"), JStr("40-49"), JStr("Off-Peak"), JStr("Rainy"), JStr("Single Motor")),
                NullBody } }
    \cup { [path |-> "/predict", content |-> c, data |-> NullBody] : c \in {"not_json", "malformed"} }

\* the values the regressor returns to the concurrent requests
ConcPredictions == { p \in Predictions : p \in {0 - 126, 375} }

ConcInit ==
    /\ app \in {"backend", "api"}
    /\ phase = "import"
    /\ load_result = "n/a"
    /\ model = None
    /\ preprocessor = None
    /\ scaler = None
    /\ metadata = None
    /\ pc = "idle"
    /\ request = NoRequest
    /\ verdict = NoVerdict
    /\ features = <<>>
    /\ prediction = 0
    /\ response = NoResponse
    /\ raised = NoExc
    /\ steps = <<>>
    /\ workers = [i \in 1..NWorkers |-> IdleWorker]

\* the encoding step of the running variant: [exc, x]
encode(a, p, data) ==
    IF a = "backend" THEN backend_encode(p, data)
    ELSE [exc |-> NoExc, x |-> prepare_input_dataframe(data)]

\* model.predict(x): what it can do, as [exc, v], for a regressor whose
\* values are `values`
model_predict(m, x, values) ==
    IF Len(x) # n_features_in(m) THEN {[exc |-> width_error, v |-> 0]}
    ELSE (IF HasNaN(x) THEN {[exc |-> nan_error, v |-> 0]} ELSE {})
             \cup {[exc |-> NoExc, v |-> v] : v \in values}

WorkerReceive(i) ==
    /\ phase = "serving" /\ workers[i].pc = "idle"
    /\ \E req \in ConcRequests :
          workers' = [workers EXCEPT ![i] = [@ EXCEPT !.pc = "received", !.request = req]]
    /\ UNCHANGED <<globals, context>>

WorkerValidate(i) ==
    /\ workers[i].pc = "received"
    /\ \E r \in {check_request(app, model, preprocessor, scaler, workers[i].request)} :
          workers' = [workers EXCEPT ![i] =
                         IF r.response = NoResponse
                         THEN [@ EXCEPT !.pc = "validated", !.verdict = r.verdict]
                         ELSE [@ EXCEPT !.pc = "responded", !.verdict = r.verdict, !.response = r.response]]
    /\ UNCHANGED <<globals, context>>

\* an encoding step that leaves its result in a buffer all requests in
\* flight read
WorkerEncode_shared(i) ==
    /\ workers[i].pc = "validated"
    /\ \E e \in {encode(app, preprocessor, workers[i].request.data)} :
          workers' = [j \in 1..NWorkers |->
                         IF j = i
                         THEN IF e.exc # NoExc
                              THEN [workers[j] EXCEPT !.pc = "responded", !.response = prediction_error(e.exc)]
                              ELSE [workers[j] EXCEPT !.pc = "encoded", !.features = e.x]
                         ELSE IF workers[j].pc = "encoded" /\ e.exc = NoExc
                              THEN [workers[j] EXCEPT !.features = e.x]
                              ELSE workers[j]]
    /\ UNCHANGED <<globals, context>>

WorkerEncode(i) ==
    /\ workers[i].pc = "validated"
    /\ \E e \in {encode(app, preprocessor, workers[i].request.data)} :
          workers' = [workers EXCEPT ![i] =
                         IF e.exc # NoExc
                         THEN [@ EXCEPT !.pc = "responded", !.response = prediction_error(e.exc)]
                         ELSE [@ EXCEPT !.pc = "encoded", !.features = e.x]]
    /\ UNCHANGED <<globals, context>>

WorkerPredict(i) ==
    /\ workers[i].pc = "encoded"
    /\ \E o \in model_predict(model, workers[i].features, ConcPredictions) :
          workers' = [workers EXCEPT ![i] =
                         IF o.exc # NoExc
                         THEN [@ EXCEPT !.pc = "responded", !.response = prediction_error(o.exc)]
                         ELSE [@ EXCEPT !.pc = "predicted", !.prediction = o.v]]
    /\ UNCHANGED <<globals, context>>

WorkerRespond(i) ==
    /\ workers[i].pc = "predicted"
    /\ workers' = [workers EXCEPT ![i] =
                      [@ EXCEPT !.pc = "responded",
                                !.response = fare_response(predicted_fare(app, workers[i].prediction),
                                                           workers[i].request.data)]]
    /\ UNCHANGED <<globals, context>>

WorkerFinish(i) ==
    /\ workers[i].pc = "responded"
    /\ workers' = [workers EXCEPT ![i] = IdleWorker]
    /\ UNCHANGED <<globals, context>>

ConcNext ==
    \/ LoadPipeline
    \/ LoadModel
    \/ \E i \in 1..NWorkers : WorkerReceive(i)
    \/ \E i \in 1..NWorkers : WorkerValidate(i)
    \/ \E i \in 1..NWorkers : WorkerEncode(i)
    \/ \E i \in 1..NWorkers : WorkerPredict(i)
    \/ \E i \in 1..NWorkers : WorkerRespond(i)
    \/ \E i \in 1..NWorkers : WorkerFinish(i)

SpecConc == ConcInit /\ [][ConcNext]_vars

-----------------------------------------------------------------------------
(* Vocabulary of the properties *)

\* the request fields, in the order the specification names them
Fields == <<"Distance_km", "Fuel_Price", "Time_of_Day", "Weather", "Vehicle_Type">>
Categoricals == <<"Fuel_Price", "Time_of_Day", "Weather", "Vehicle_Type">>

\* the handler can validate: the regressor it needs was loaded at import
PipelineAvailable ==
    IF app = "backend" THEN model # None /\ preprocessor # None /\ scaler # None ELSE model # None

\* the handler of the current request has called validate_input_data on a
\* JSON object
ValidatedObject ==
    /\ pc \in {"validated", "encoded", "predicted", "responded"}
    /\ PipelineAvailable
    /\ request.content = "json"
    /\ request.data.t = "dict"

HasAll == \A i \in 1..Len(Fields) : Fields[i] \in DOMAIN request.data.d

\* the first element of seq that satisfies Bad
First(seq, Bad(_)) == seq[CHOOSE i \in 1..Len(seq) : Bad(seq[i]) /\ \A j \in 1..(i - 1) : ~Bad(seq[j])]

IsAbsent(c) == c \notin DOMAIN request.data.d

\* the ceiling of Distance_km, in thousandths of a km
Ceiling == IF app = "backend" THEN 100 * 1000 ELSE 1000 * 1000

\* the accepted labels of a categorical field in the running variant
Accepted(f) ==
    LET vv == IF app = "backend" THEN backend_VALID_VALUES ELSE api_VALID_VALUES
    IN  vv[CHOOSE i \in 1..Len(vv) : vv[i].field = f].values

IsOffending(f) ==
    ~(request.data.d[f].t = "str" /\ \E i \in 1..Len(Accepted(f)) : Accepted(f)[i] = request.data.d[f].s)

\* Distance_km converts to a real number inside (0, ceiling]
DistanceInRange ==
    /\ py_float(request.data.d["Distance_km"]).exc = NoExc
    /\ py_float(request.data.d["Distance_km"]).v.k = "fin"
    /\ py_float(request.data.d["Distance_km"]).v.m > 0
    /\ py_float(request.data.d["Distance_km"]).v.m <= Ceiling

-----------------------------------------------------------------------------
(* Properties of validation *)

\* C1: a request object that lacks one of the five keys is refused with
\* "Missing required field: <key>", whatever the other values are; when
\* several keys are absent the message names the first absent one in the
\* order Distance_km, Fuel_Price, Time_of_Day, Weather, Vehicle_Type.
C1_MissingFieldNamed ==
    (ValidatedObject /\ ~HasAll)
        => verdict = [exc |-> NoExc, ok |-> FALSE,
                      msg |-> "Missing required field: " \o First(Fields, IsAbsent)]

\* a request that lacks exactly Time_of_Day and whose distance is no number
\* was refused for the missing key
C1_Witness ==
    /\ ValidatedObject /\ pc = "responded"
    /\ DOMAIN request.data.d = {"Distance_km", "Fuel_Price", "Weather", "Vehicle_Type"}
    /\ request.data.d["Distance_km"] = JStr("abc")
    /\ verdict.msg = "Missing required field: Time_of_Day"

\* C2: with all five keys and a Distance_km that converts to a number d,
\* d <= 0 or d above the ceiling (100 km backend, 1000 km api) is refused
\* with an out-of-range message whatever the categorical values are, and the
\* request is answered 400; 1500 km is above both ceilings.
C2_OutOfRangeRefused ==
    (/\ ValidatedObject /\ HasAll
     /\ py_float(request.data.d["Distance_km"]).exc = NoExc
     /\ \/ float_le(py_float(request.data.d["Distance_km"]).v, 0)
        \/ float_gt(py_float(request.data.d["Distance_km"]).v, Ceiling))
        => /\ verdict.exc = NoExc /\ ~verdict.ok
           /\ verdict.msg = IF float_le(py_float(request.data.d["Distance_km"]).v, 0)
                            THEN "Distance must be greater than 0"
                            ELSE IF app = "backend"
                                 THEN "Distance seems unrealistic (> 100 km for Tagum City)"
                                 ELSE "Distance seems unrealistic (> 1000 km)"
           /\ pc = "responded"
           /\ response.status = 400
           /\ response.error = verdict.msg

\* 1500 km with an unknown fuel bracket was answered 400 by the api variant
C2_Witness ==
    /\ ValidatedObject /\ HasAll /\ pc = "responded" /\ app = "api"
    /\ request.data.d["Distance_km"] = JNum(1500 * 1000)
    /\ request.data.d["Fuel_Price"] = JStr("invalid-price")
    /\ response.status = 400
    /\ response.error = "Distance seems unrealistic (> 1000 km)"

\* C3: with all five keys and a distance in range, a categorical value
\* outside VALID_VALUES is refused with a message that names the first
\* offending field (in the order Fuel_Price, Time_of_Day, Weather,
\* Vehicle_Type) and no other, quotes the rejected value and lists every
\* accepted value of that field.
C3_InvalidCategoryNamed ==
    (/\ ValidatedObject /\ HasAll /\ DistanceInRange
     /\ \E i \in 1..Len(Categoricals) : IsOffending(Categoricals[i]))
        => /\ verdict.exc = NoExc /\ ~verdict.ok
           /\ IsSubstring("Invalid " \o First(Categoricals, IsOffending) \o ": ", verdict.msg)
           /\ \A i \in 1..Len(Categoricals) :
                 Categoricals[i] # First(Categoricals, IsOffending)
                     => ~IsSubstring(Categoricals[i], verdict.msg)
           /\ IsSubstring("'" \o py_str(request.data.d[First(Categoricals, IsOffending)]) \o "'",
                          verdict.msg)
           /\ \A i \in 1..Len(Accepted(First(Categoricals, IsOffending))) :
                 IsSubstring(Accepted(First(Categoricals, IsOffending))[i], verdict.msg)

\* a request whose Time_of_Day and Weather are both unknown was refused for
\* Time_of_Day
C3_Witness ==
    /\ ValidatedObject /\ HasAll /\ DistanceInRange /\ pc = "responded"
    /\ ~IsOffending("Fuel_Price")
    /\ request.data.d["Time_of_Day"] = JStr("Midnight")
    /\ request.data.d["Weather"] = JStr("Snowy")
    /\ IsSubstring("Invalid Time_of_Day: 'Midnight'", verdict.msg)

\* "cannot be converted to a real number": null, a list, an object, or a
\* string that is not the numeral of a real number
NotANumber(x) ==
    \/ x.t \in {"null", "list", "dict"}
    \/ x.t = "str" /\ (float_of_str(x.s).exc # NoExc \/ float_of_str(x.s).v.k # "fin")

\* C4: with all five keys, a Distance_km that cannot be converted to a real
\* number is refused with "Distance_km must be a valid number" and answered
\* 400; validation neither raises nor passes.
C4_NotANumberRefused ==
    (ValidatedObject /\ HasAll /\ NotANumber(request.data.d["Distance_km"]))
        => /\ verdict = [exc |-> NoExc, ok |-> FALSE, msg |-> "Distance_km must be a valid number"]
           /\ pc = "responded"
           /\ response.status = 400

\* C5: validation passes only for requests with all five keys, a
\* Distance_km that converts to a real number in (0, ceiling] and four
\* categorical values of VALID_VALUES; no other request reaches the
\* encoding step.
C5_AcceptedDomain ==
    (verdict.ok \/ pc \in {"validated", "encoded", "predicted"})
        => /\ request.content = "json" /\ request.data.t = "dict"
           /\ HasAll
           /\ DistanceInRange
           /\ \A i \in 1..Len(Categoricals) : ~IsOffending(Categoricals[i])

-----------------------------------------------------------------------------
(* Properties of the responses *)

\* validate_input_data refuses the body of the current request
BodyFailsValidation ==
    /\ request.content = "json"
    /\ validate_input_data(app, request.data).exc = NoExc
    /\ ~validate_input_data(app, request.data).ok

\* C6: every request whose body fails validation is answered 400, in every
\* reachable server state, the one in which the pipeline was not loaded at
\* startup included.
C6_ValidationFailureIs400 ==
    (pc = "responded" /\ BodyFailsValidation) => response.status = 400

\* C6 as amended: a request whose body fails validation is answered 400
\* when the pipeline was loaded at startup, and 500 (pipeline not
\* available, before any validation) when it was not.
C6_ValidationFailureIs400WhenLoaded ==
    (pc = "responded" /\ BodyFailsValidation)
        => /\ response.status = IF PipelineAvailable THEN 400 ELSE 500
           /\ PipelineAvailable => response.error = validate_input_data(app, request.data).msg
           /\ ~PipelineAvailable => verdict = NoVerdict

\* a request with a string for Distance_km was answered 400 by a backend that
\* holds model, preprocessor and scaler
C6_Witness ==
    /\ pc = "responded" /\ BodyFailsValidation /\ PipelineAvailable /\ app = "backend"
    /\ response.status = 400
    /\ response.error = "Distance_km must be a valid number"

\* the scenario payload of the specification, Time_of_Day omitted
ScenarioWithoutTime ==
    /\ request.content = "json" /\ request.data.t = "dict"
    /\ DOMAIN request.data.d = {"Distance_km", "Fuel_Price", "Weather", "Vehicle_Type"}
    /\ request.data.d["Distance_km"] = JNum(5500)
    /\ request.data.d["Fuel_Price"] = JStr("60-69")
    /\ request.data.d["Weather"] = JStr("Sunny")
    /\ request.data.d["Vehicle_Type"] = JStr("Tricycle")

\* the current response is the 400 of a validation failure
RefusedByValidator == pc = "responded" /\ response.status = 400 /\ verdict # NoVerdict

\* C7: the body of every 400 response for a validation failure is a JSON
\* object whose only key is "error", holding the validator's message; for
\* the scenario payload without Time_of_Day it is exactly
\* {"error": "Missing required field: Time_of_Day"}.
C7_ErrorOnlyBody ==
    RefusedByValidator
        => /\ response.keys = {"error"}
           /\ response.error = verdict.msg
           /\ ScenarioWithoutTime => response.error = "Missing required field: Time_of_Day"

\* C7 as amended: the body holds the validator's message under "error"; it
\* is the only key in api/predict.py, and backend/app.py adds the key
\* "valid_fuel_prices" with the Fuel_Price list of VALID_VALUES.
C7_ErrorBody ==
    RefusedByValidator
        => /\ response.keys = IF app = "api" THEN {"error"} ELSE {"error", "valid_fuel_prices"}
           /\ response.error = verdict.msg
           /\ verdict.exc = NoExc /\ ~verdict.ok
           /\ app = "backend" => response.valid_fuel_prices = Accepted("Fuel_Price")
           /\ ScenarioWithoutTime => response.error = "Missing required field: Time_of_Day"

\* the api variant answered the scenario payload without Time_of_Day
C7_Witness ==
    /\ RefusedByValidator /\ ScenarioWithoutTime /\ app = "api"
    /\ response.keys = {"error"}
    /\ response.error = "Missing required field: Time_of_Day"

\* a request as test_api.py and the scenario write it: distance in range,
\* an un-prefixed fuel bracket, valid time, weather and vehicle
TestVocabularyRequest ==
    /\ request.content = "json" /\ request.data.t = "dict" /\ HasAll
    /\ DistanceInRange
    /\ request.data.d["Fuel_Price"] \in {JStr("60-69"), JStr("40-49"), JStr("80-89")}
    /\ ~IsOffending("Time_of_Day") /\ ~IsOffending("Weather") /\ ~IsOffending("Vehicle_Type")

\* C8: with the pipeline loaded, backend/app.py answers 200 with a
\* predicted_fare to every request in the un-prefixed vocabulary of the tests.
C8_TestRequestsPredicted ==
    (app = "backend" /\ load_result = "True" /\ pc = "responded" /\ TestVocabularyRequest)
        => response.status = 200 /\ "predicted_fare" \in response.keys

\* f is v rounded to two decimals (both in thousandths): the nearest
\* hundredth, the even one on a tie
RoundedTo2(v, f) ==
    /\ f % 10 = 0
    /\ f - v \in -5..5
    /\ f - v \in {-5, 5} => (f \div 10) % 2 = 0

\* C9: in backend/app.py the predicted_fare of a 200 response is
\* max(0, round(v, 2)) for the value v the regressor returned: never
\* negative, at most two decimals, and v rounded to two decimals whenever
\* that is >= 0.
C9_BackendFareClamped ==
    (app = "backend" /\ request.path = "/predict" /\ response.status = 200)
        => /\ response.predicted_fare >= 0
           /\ response.predicted_fare % 10 = 0
           /\ \E f \in {(prediction \div 10) * 10, (prediction \div 10 + 1) * 10} :
                 /\ RoundedTo2(prediction, f)
                 /\ response.predicted_fare = IF f >= 0 THEN f ELSE 0

\* the regressor returned -0.125 and the backend answered a fare of 0
C9_Witness ==
    /\ app = "backend" /\ pc = "responded" /\ response.status = 200
    /\ prediction = -125
    /\ response.predicted_fare = 0

\* C10: in api/predict.py every 200 response carries a predicted_fare that
\* is non-negative and rounded to two decimals, whatever the regressor
\* returned.
C10_ApiFareNonNegative ==
    (app = "api" /\ request.path = "/predict" /\ response.status = 200)
        => /\ response.predicted_fare >= 0
           /\ response.predicted_fare % 10 = 0

-----------------------------------------------------------------------------
(* Properties of the request life cycle *)

\* the current request is a POST /predict
IsPredict == request.path = "/predict"

\* C11: when the startup load left the regressor unavailable, every POST
\* /predict, whatever its body and whatever was served before, is answered
\* 500 with an error payload and no fare, straight from the first check of
\* the handler; no step of any request loads a component or otherwise
\* changes the loaded globals.
C11_UnavailableAnswers500 ==
    /\ []((phase = "serving" /\ ~PipelineAvailable /\ IsPredict /\ pc # "received")
            => /\ pc = "responded"
               /\ response.status = 500
               /\ "error" \in response.keys /\ response.error # ""
               /\ "predicted_fare" \notin response.keys
               /\ verdict = NoVerdict)
    /\ [][(phase = "serving" /\ ~PipelineAvailable)
            => UNCHANGED <<model, preprocessor, scaler, metadata, load_result, phase>>]_vars

\* a backend that loaded the model but not the preprocessor answered 500 to a
\* request whose body is valid
C11_Witness ==
    /\ app = "backend" /\ model # None /\ preprocessor = None
    /\ pc = "responded" /\ IsPredict
    /\ request.content = "json" /\ request.data.t = "dict" /\ HasAll /\ DistanceInRange
    /\ \A i \in 1..Len(Categoricals) : ~IsOffending(Categoricals[i])
    /\ response.status = 500
    /\ response.error = "Model pipeline not available. Please contact administrator."

\* C12: an exception raised while POST /predict handles a request (by
\* get_json, validation, the encoders or the regressor) ends the request
\* with status 500 and the body {error: "Internal server error during
\* prediction", details: <exception text>}; the step that follows leaves the
\* loaded pipeline as it was and the server idle, with nothing of the
\* failed request left.
C12_ExceptionsAnswered500 ==
    /\ []((IsPredict /\ verdict.exc # NoExc) => raised = verdict.exc)
    /\ []((IsPredict /\ raised # NoExc)
            => /\ pc = "responded"
               /\ response = [NoResponse EXCEPT !.status = 500, !.keys = {"error", "details"},
                                                 !.error = "Internal server error during prediction",
                                                 !.details = raised.text])
    /\ [][(IsPredict /\ raised # NoExc) => (UNCHANGED globals /\ context' = IdleContext)]_vars

\* the preprocessor raised on a request that validation had accepted, and
\* the backend answered 500 with the text of the exception
C12_Witness ==
    /\ app = "backend" /\ IsPredict /\ pc = "responded"
    /\ verdict.ok /\ raised.type = "ValueError" /\ features = <<>>
    /\ response.status = 500 /\ response.details = raised.text /\ raised.text # ""

\* the steps of a request that went all the way to the regressor
Pipeline == <<"Received", "Validated", "Encoded", "Predicted">>

\* the step sequences a request may show: a prefix of the pipeline,
\* possibly closed by the one response
LegalSteps == { SubSeq(Pipeline, 1, k) : k \in 1..4 }
                  \cup { Append(SubSeq(Pipeline, 1, k), "Responded") : k \in 1..4 }

Performed(step) == \E i \in 1..Len(steps) : steps[i] = step

\* C13: each POST /predict goes Received -> Validated -> Encoded ->
\* Predicted -> Responded or leaves that path for its one response: the
\* encoders and the regressor run only after validate_input_data returned
\* (True, None) for the request, a 200 with predicted_fare comes only after
\* the regressor ran for it, a request that failed at any step carries an
\* error and no predicted_fare, and a response, once produced, is the
\* request's only one.
C13_StepOrder ==
    /\ []((IsPredict /\ pc # "idle")
            => /\ steps \in LegalSteps
               /\ (response # NoResponse) <=> Performed("Responded")
               /\ (response # NoResponse) <=> (pc = "responded")
               /\ Performed("Encoded") => verdict = Return(TRUE, None)
               /\ response.status = 200
                    => (Performed("Predicted") /\ response.keys = {"predicted_fare", "input"})
               /\ (pc = "responded" /\ response.status # 200)
                    => /\ response.status \in {400, 500}
                       /\ "error" \in response.keys
                       /\ "predicted_fare" \notin response.keys)
    /\ [][(IsPredict /\ response # NoResponse) => (pc' = "idle" /\ response' = NoResponse)]_vars

\* a request went through the four steps of the api variant and was
\* answered 200
C13_Witness ==
    /\ app = "api" /\ IsPredict
    /\ steps = Append(Pipeline, "Responded")
    /\ response.status = 200 /\ "predicted_fare" \in response.keys

-----------------------------------------------------------------------------
(* Properties of the loaded pipeline *)

\* C14: in backend/app.py no request to any endpoint (/, /predict, /health,
\* /valid-values, an unknown path) changes model, preprocessor, scaler or
\* metadata once the import has finished; the globals are written by the
\* one load that the import runs, with no request served before it.
C14_GlobalsFrozenAfterImport ==
    /\ [][(app = "backend" /\ phase = "serving")
            => UNCHANGED <<model, preprocessor, scaler, metadata, load_result, phase>>]_vars
    /\ [][(app = "backend" /\ phase = "import") => phase' = "serving"]_vars
    /\ []((app = "backend" /\ phase = "import")
            => /\ pc = "idle" /\ context = IdleContext
               /\ <<model, preprocessor, scaler, metadata>> = <<None, None, None, None>>)

\* a backend whose load succeeded has answered a GET /health
C14_Witness ==
    /\ app = "backend" /\ phase = "serving" /\ load_result = "True"
    /\ request = Get("/health") /\ pc = "responded" /\ response.status = 200
    /\ <<model, preprocessor, scaler, metadata>>
           = <<"model.pkl:train_tagum_model", "preprocessor.pkl:script", Loaded, Loaded>>

-----------------------------------------------------------------------------
(* Properties of concurrent requests *)

\* the responses the handler gives to a request that passed validation,
\* when it is the only request processed: e is the result of its encoding
AloneAfterEncoding(a, m, data, e, values) ==
    IF e.exc # NoExc THEN {prediction_error(e.exc)}
    ELSE { IF o.exc # NoExc THEN prediction_error(o.exc)
           ELSE fare_response(predicted_fare(a, o.v), data) : o \in model_predict(m, e.x, values) }

\* the responses the handler gives to req when it is the only request
\* processed; c is what its checks up to validation give
AloneAfterChecks(a, m, p, req, c, values) ==
    IF c.response # NoResponse THEN {c.response}
    ELSE AloneAfterEncoding(a, m, req.data, encode(a, p, req.data), values)

Alone(a, m, p, sc, req, values) ==
    AloneAfterChecks(a, m, p, req, check_request(a, m, p, sc, req), values)

\* the local state w of a request in flight is what the request alone, with
\* the loaded pipeline, gives
Isolated(w) ==
    /\ w.pc \in {"validated", "encoded", "predicted", "responded"}
          => w.verdict = check_request(app, model, preprocessor, scaler, w.request).verdict
    /\ w.pc \in {"encoded", "predicted"}
          => w.features = encode(app, preprocessor, w.request.data).x
    /\ w.pc = "responded"
          => w.response \in Alone(app, model, preprocessor, scaler, w.request, ConcPredictions)
    /\ (w.pc = "responded" /\ w.response.status = 200)
          => /\ w.features = encode(app, preprocessor, w.request.data).x
             /\ w.response = fare_response(predicted_fare(app, w.prediction), w.request.data)

\* C15: whatever the interleaving of the validation, encoding and
\* prediction steps of concurrent POST /predict requests, each request gets a
\* status and a body it would get as the only request processed: they
\* depend on its own body and on the pipeline loaded at startup, not on the
\* other requests.
C15_RequestsIsolated == \A i \in 1..NWorkers : Isolated(workers[i])

\* two different requests are in flight at once: the first was refused with
\* 400 while the second, accepted, waits for the regressor with its own
\* features
C15_Witness ==
    /\ workers[1].pc = "responded" /\ workers[1].response.status = 400
    /\ workers[2].pc = "encoded" /\ workers[2].features # <<>>
    /\ workers[1].request # workers[2].request

-----------------------------------------------------------------------------
(* Properties of the encoding and of the echoed input *)

\* C16: for every request api/predict.py's validation accepts,
\* prepare_input_dataframe gives one fully defined vector of 5 numbers,
\* which is the vector train_model.preprocess_data gives for the record:
\* Distance_km, then the label codes of Fuel_Price, Time_of_Day, Weather and
\* Vehicle_Type, each the rank of the label among the sorted labels of its
\* field; and every label of VALID_VALUES has a code in the static table.
C16_EncodingMatchesTraining ==
    /\ \A i \in 1..Len(api_VALID_VALUES) : \A j \in 1..Len(api_VALID_VALUES[i].values) :
          /\ encodings[i].field = api_VALID_VALUES[i].field
          /\ Index(encodings[i].labels, api_VALID_VALUES[i].values[j]) # 0
    /\ (app = "api" /\ IsPredict /\ Performed("Encoded"))
          => /\ verdict = Return(TRUE, None)
             /\ features = prepare_input_dataframe(request.data)
             /\ Len(features) = 5
             /\ \A i \in 1..Len(features) : features[i].k = "fin"
             /\ features = preprocess_data(request.data)

\* C17: the 'input' of every 200 response of POST /predict is the JSON
\* object the client sent, key for key and value for value: a key the
\* handler does not know is echoed, and Distance_km is echoed as it was sent
\* (the string "5.5" stays a string).
C17_InputEchoed ==
    (IsPredict /\ response.status = 200)
        => /\ "input" \in response.keys
           /\ response.input.t = "dict"
           /\ DOMAIN response.input.d = DOMAIN request.data.d
           /\ \A k \in DOMAIN request.data.d : response.input.d[k] = request.data.d[k]

\* a request with an unknown key and the string "5.5" for Distance_km was
\* answered 200
C17_Witness ==
    /\ IsPredict /\ pc = "responded" /\ response.status = 200
    /\ request.data.t = "dict"
    /\ "Passenger_Count" \in DOMAIN request.data.d
    /\ request.data.d["Distance_km"] = JStr("5.5")
    /\ response.input = request.data

-----------------------------------------------------------------------------
(* Properties of the validator as a function, and of the other endpoints *)

\* C18: validate_input_data is total: for every JSON value get_json() can
\* return as the body (object, array, string, number, null) it returns a
\* pair and does not raise, so that a server with its pipeline loaded
\* answers a body it refuses with 400, never with 500.
C18_ValidatorTotal ==
    (IsPredict /\ request.content = "json" /\ PipelineAvailable /\ pc # "received")
        => /\ verdict.exc = NoExc
           /\ verdict = validate_input_data(app, request.data)
           /\ (pc = "responded" /\ ~verdict.ok) => response.status = 400

Probe(f, v) ==
    DictBody([c \in {"Distance_km", "Fuel_Price", "Time_of_Day", "Weather", "Vehicle_Type"} |->
                 IF c = f THEN v
                 ELSE CASE c = "Distance_km" -> JNum(5500)
                        [] c = "Fuel_Price" -> JStr("~60-69")
                        [] c = "Time_of_Day" -> JStr("Off-Peak")
                        [] c = "Weather" -> JStr("Sunny")
                        [] OTHER -> JStr("Tricycle")])

\* the values tried for a categorical field: what the clients send, and
\* every label of either variant's table
Candidates ==
    FuelValues \cup TimeValues \cup WeatherValues \cup VehicleValues
        \cup UNION { { JStr(backend_VALID_VALUES[i].values[j]) : j \in 1..Len(backend_VALID_VALUES[i].values) } :
                      i \in 1..Len(backend_VALID_VALUES) }
        \cup UNION { { JStr(api_VALID_VALUES[i].values[j]) : j \in 1..Len(api_VALID_VALUES[i].values) } :
                      i \in 1..Len(api_VALID_VALUES) }

\* the list a /valid-values response gives for field f (empty: none)
Listed(listing, f) ==
    IF \E i \in 1..Len(listing) : listing[i].field = f
    THEN listing[CHOOSE i \in 1..Len(listing) : listing[i].field = f].values
    ELSE <<>>

\* C20: for each categorical field, backend/app.py's validate_input_data
\* accepts a value if and only if the value is in the list GET /valid-values
\* returns for that field, in every state the server answers it in.
C20_ListingMatchesValidator ==
    (request = Get("/valid-values") /\ pc = "responded")
        => /\ response.status = 200
           /\ \A i \in 1..Len(Categoricals) : \A v \in Candidates :
                 backend_validate_input_data(Probe(Categoricals[i], v)).ok
                     <=> (v.t = "str" /\ \E j \in 1..Len(Listed(response.valid_values, Categoricals[i])) :
                                            Listed(response.valid_values, Categoricals[i])[j] = v.s)

\* a backend without a pipeline answered GET /valid-values with the peso
\* brackets
C20_Witness ==
    /\ request = Get("/valid-values") /\ pc = "responded" /\ model = None
    /\ response.status = 200
    /\ Listed(response.valid_values, "Fuel_Price")[5] = "~60-69"

AllLoaded == model # None /\ preprocessor # None /\ scaler # None /\ metadata # None

NoneLoaded == model = None /\ preprocessor = None /\ scaler = None /\ metadata = None

\* C22: load_pipeline is all-or-nothing: it returns True exactly when model,
\* preprocessor, scaler and metadata are all non-None afterwards; when it
\* returns False the four are still None, so a startup logged as failed
\* never answers POST /predict with a fare.
C22_LoadAllOrNothing ==
    (app = "backend" /\ phase = "serving")
        => /\ load_result = "True" <=> AllLoaded
           /\ load_result = "False" => NoneLoaded
           /\ (load_result = "False" /\ IsPredict /\ pc = "responded") => response.status # 200
\* the labels of a list
Labels(seq) == { seq[i] : i \in 1..Len(seq) }

\* C23: with the preprocessor train_tagum_model.py fits as the file stands,
\* the Fuel_Price labels the backend validator accepts are the categories of
\* the ordinal encoder (fuel_price_order) in the same order, the other three
\* enumerations are the labels the one-hot encoder learnt from the training
\* data, and so a request that passed validation never makes
\* preprocessor.transform raise.
C23_ValidatorLabelsAreTrainingCategories ==
    (app = "backend" /\ preprocessor = "preprocessor.pkl:script"
        /\ IsPredict /\ pc = "responded" /\ verdict.ok)
        => /\ backend_VALID_VALUES[1].values = ordinal_categories(preprocessor)
           /\ \A i \in 1..3 : Labels(backend_VALID_VALUES[i + 1].values) = Labels(onehot_categories[i])
           /\ backend_encode(preprocessor, request.data).exc = NoExc
           /\ raised = NoExc

====
